---- MODULE Spec2Model ----
(***************************************************************************)
(* A model of the raspi capture stack: the beacon registry and its         *)
(* listener (discover_and_capture.py), the capture worker behind           *)
(* POST /capture and the subnet scan (capture_service.py), the session     *)
(* directories of the upload receiver (receiver_vlm.py) and the TCP frame  *)
(* protocol (cam_sender_picam2.py, frame_receiver.py).                     *)
(*                                                                         *)
(* The subsystems share no state, so each has its own specification        *)
(* (SpecReg, SpecCap, SpecSess, SpecFrame, SpecScan) over the one set of   *)
(* variables; a specification leaves the variables of the other            *)
(* subsystems alone.  SpecFrame is the frame receiver with arbitrary       *)
(* peers, SpecLink the receiver with the sender of the repository on one   *)
(* connection.                                                             *)
(*                                                                         *)
(* Text is modelled as a sequence of one-character strings, bytes as       *)
(* integers 0..255, an optional value as a sequence of length 0 or 1.      *)
(***************************************************************************)
EXTENDS Integers, Sequences, FiniteSets, TLC

VARIABLES
    \* ---- discover_and_capture.py ----
    _nodes,      \* RaspiRegistry._nodes: the dict, as its items in insertion order
    stop_evt,    \* the threading.Event shared by main and the listener
    lpc,         \* listener_thread: "check" (loop test), "recv" (in recvfrom), "stopped"
    heard,       \* the datagrams recvfrom has returned so far, in order
    clock,       \* time.time() of the discovery process, in ticks
    mpc,         \* main: "wait", "sleep", "selected", "done", "raised", "exit_fail"
    host_hint,   \* args.host
    target,      \* main's target: None or the selected record
    deadline,    \* main's deadline
    args,        \* main's args.name, args.count, args.interval
    posts,       \* the POSTs trigger_capture has made, with how each ended
    upd,         \* per thread in RaspiRegistry.update: the record it built, not yet stored
    \* ---- capture_service.py ----
    lock,        \* CaptureWorker.lock: 0 when free, else the request holding it
    cam,         \* CaptureWorker.cam: "none", "created" (not started), "started"
    hpc,         \* per request: where do_POST / capture_and_send stands
    idx,         \* per request: the loop variable i
    reply,       \* per request: the response written
    calls,       \* the POST requests received: arguments, outcome, sleeps
    events,      \* device reads and uploads, in the order they happened
    ninit,       \* Picamera2() constructions so far
    \* ---- receiver_vlm.py ----
    _sessions,   \* the per-name session cache: key -> None or (dir, created_at)
    sclock,      \* time.time() of the receiver, in ticks
    dirs,        \* the directories mkdir has made
    saved,       \* the image files saved
    tasks,       \* background annotation threads started
    resolved,    \* the upload() calls so far: arguments, time and the directory resolved
    ureply,      \* the status of the last /upload response
    \* ---- frame_receiver.py, cam_sender_picam2.py ----
    stream,      \* what the peer sends on the connection before it closes
    wire,        \* the bytes of the stream the receiver has not read yet
    rpc,         \* main / handle_client: "listening", the field being read, "closed", "error"
    rerr,        \* the exception that ended handle_client, "" if none
    header,      \* the bytes the last conn.recv(4) returned
    buf,         \* recv_exact's data
    name_len,    \* handle_client's name_len
    img_len,     \* handle_client's img_len
    rname,       \* handle_client's name
    decoded,     \* the (name bytes, image) pairs decoded on this connection
    consumed,    \* the number of bytes read when the last frame was stored
    stored,      \* the files of OUT_DIR: file name -> content
    acks,        \* acknowledgments written, on all connections
    fclock,      \* the receiver's clock when it was last read, in seconds
    nconn,       \* connections accepted so far
    nsent,       \* frames the peers have put on connections so far
    \* ---- cam_sender_picam2.py: main ----
    spc,         \* the sender: "none" (no sender of this repository), "start", "loop",
                 \* the sendall in progress, "ack", "sleep", "done", "failed"
    si,          \* the loop variable i
    stimeout,    \* the timeout of sock: None (blocking) or the time, in tenths of a second
    sargs,       \* args.name (as bytes), args.count, args.interval
    sacked,      \* how each of the sender's sock.recv(2) calls ended, in order
    sfail,       \* the exception that ended the sender, "" if none
    \* ---- capture_service.py: discover_receiver_via_scan ----
    ifout,       \* what `ip -4 addr show wlan0` gives: failure, no inet line, or ip/prefix
    net,         \* the scan's net: None or the network
    probes,      \* the GETs of /health made so far: host and how the GET ended
    scanpc,      \* the scan: "start", "probing", "returned"
    scanret      \* the scan's return value: None or the base URL

regVars == <<_nodes, stop_evt, lpc, heard, clock, mpc, host_hint, target, deadline, args,
            posts, upd>>

capVars == <<lock, cam, hpc, idx, reply, calls, events, ninit>>

sessVars == <<_sessions, sclock, dirs, saved, tasks, resolved, ureply>>

frameVars == <<stream, wire, rpc, rerr, header, buf, name_len, img_len, rname, decoded, consumed,
               stored, acks, fclock, nconn, nsent>>

sendVars == <<spc, si, stimeout, sargs, sacked, sfail>>

scanVars == <<ifout, net, probes, scanpc, scanret>>

vars == <<regVars, capVars, sessVars, frameVars, sendVars, scanVars>>

None == <<>>
Some(x) == <<x>>

(***************************************************************************)
(* Text                                                                    *)
(***************************************************************************)

\* str.lower() on the alphabet the model uses
LowerChar(c) ==
    CASE c = "A" -> "a"
      [] c = "B" -> "b"
      [] c = "C" -> "c"
      [] OTHER -> c

Lower(s) == [i \in 1..Len(s) |-> LowerChar(s[i])]

\* Python's `sub in s` on strings
Contains(sub, s) ==
    \E i \in 0..(Len(s) - Len(sub)) : SubSeq(s, i + 1, i + Len(sub)) = sub

HostCamA == <<"c", "a", "m", "-", "A">>
HostCamB == <<"c", "a", "m", "-", "B">>
HostPi   == <<"p", "i", "-", "C">>
HostDefault == <<"r", "a", "s", "p", "i">>
IpBeacon == <<"1", "0", ".", "7">>
IpSource == <<"1", "0", ".", "9">>

(***************************************************************************)
(* Datagrams arriving on the discovery port                                *)
(***************************************************************************)

\* The envelope says what json.loads does: "garbage" (it raises), "value" (a
\* JSON value that is not a dict) or "object" (a dict, whose fields follow;
\* an absent or empty field is the empty text).
Payload(j, t, h, i) ==
    [json |-> j, type |-> t, host |-> h, ip |-> i,
     iface |-> IF t = "raspi_cam" THEN <<"w", "0">> ELSE <<>>,
     receiver_url |-> <<>>]

CamPayloads ==
    {Payload("object", "raspi_cam", HostCamA, IpBeacon),
     Payload("object", "raspi_cam", HostCamB, IpBeacon),
     Payload("object", "raspi_cam", HostPi, <<>>),
     Payload("object", "raspi_cam", HostCamA, <<>>),
     Payload("object", "raspi_cam", <<>>, <<>>)}

NoisePayloads ==
    {Payload("garbage", "", <<>>, <<>>),
     Payload("value", "", <<>>, <<>>),
     Payload("object", "unknown", HostCamA, IpBeacon),
     Payload("object", "capture_receiver", HostCamB, <<>>)}

Payloads == CamPayloads \cup NoisePayloads

SrcIps == {IpSource}

\* bounds of the discovery model
MaxDatagrams == 2
MaxClock == 2
WaitTicks == 1

(***************************************************************************)
(* RaspiRegistry                                                           *)
(***************************************************************************)

\* `x or default` on text
OrElse(x, default) == IF x = <<>> THEN default ELSE x

\* key = f"{host}@{ip}"
KeyOf(host, ip) == host \o <<"@">> \o ip

\* the record update builds from a raspi_cam payload
InfoOf(payload, src_ip, now) ==
    [host         |-> OrElse(payload.host, HostDefault),
     ip           |-> OrElse(payload.ip, src_ip),
     iface        |-> payload.iface,
     receiver_url |-> payload.receiver_url,
     last_seen    |-> now,
     raw          |-> payload]

\* update without its test of the type field
Accepted_AnyObject(payload) ==
    payload.json = "object"

\* the two early returns of update
Accepted(payload) ==
    /\ payload.json = "object"
    /\ payload.type = "raspi_cam"

\* a table that appends a record on every beacon
DictSet_Append(d, key, info) ==
    Append(d, [key |-> key, info |-> info])

\* self._nodes[key] = info on an insertion-ordered dict: an existing key keeps
\* its place, a new key goes last
DictSet(d, key, info) ==
    IF \E k \in 1..Len(d) : d[k].key = key
    THEN [k \in 1..Len(d) |-> IF d[k].key = key THEN [key |-> key, info |-> info] ELSE d[k]]
    ELSE Append(d, [key |-> key, info |-> info])

\* RaspiRegistry.update
update(d, payload, src_ip, now) ==
    IF ~Accepted(payload) THEN d
    ELSE LET info == InfoOf(payload, src_ip, now)
         IN  DictSet(d, KeyOf(info.host, info.ip), info)

\* sorted(..., reverse=True) is stable: descending by last_seen, records with
\* equal last_seen in the order of the input
RECURSIVE SortNewestFirst(_)
SortNewestFirst(s) ==
    IF s = <<>> THEN <<>>
    ELSE LET rest == SortNewestFirst(SubSeq(s, 1, Len(s) - 1))
             r    == s[Len(s)]
             \* r was last in the input: it goes after every record that is
             \* at least as new
             n    == Cardinality({k \in 1..Len(rest) : rest[k].last_seen >= r.last_seen})
         IN  SubSeq(rest, 1, n) \o <<r>> \o SubSeq(rest, n + 1, Len(rest))

DictValues(d) == [k \in 1..Len(d) |-> d[k].info]

\* RaspiRegistry.list_all
list_all(d) == SortNewestFirst(DictValues(d))

\* latest without the sort: the first record of the dict
latest_Unsorted(d) ==
    IF d = <<>> THEN None ELSE Some(d[1].info)

\* RaspiRegistry.latest
latest(d) ==
    LET items == list_all(d)
    IN  IF items = <<>> THEN None ELSE Some(items[1])

\* find_by_host without lower-casing the hint
find_by_host_HintCase(d, host_sub) ==
    LET items == list_all(d)
        hits  == {k \in 1..Len(items) : Contains(host_sub, Lower(items[k].host))}
    IN  IF hits = {} THEN None
        ELSE Some(items[CHOOSE k \in hits : \A j \in hits : k <= j])

\* RaspiRegistry.find_by_host
find_by_host(d, host_sub) ==
    LET items == list_all(d)
        hits  == {k \in 1..Len(items) : Contains(Lower(host_sub), Lower(items[k].host))}
    IN  IF hits = {} THEN None
        ELSE Some(items[CHOOSE k \in hits : \A j \in hits : k <= j])

\* a choose_target that falls back to the latest peer when the hint matches
\* none
choose_target_Fallback(d, hint) ==
    IF hint # <<>> /\ find_by_host(d, hint) # None THEN find_by_host(d, hint) ELSE latest(d)

\* choose_target: None stands for the RuntimeError
choose_target(d, hint) ==
    IF hint # <<>> THEN find_by_host(d, hint) ELSE latest(d)

\* bound: the threads that call RaspiRegistry.update
MaxUpdaters == 2

Updaters == 1..MaxUpdaters

\* the defaults of --name, --count, --interval
Args(n, c, iv) == [name |-> n, count |-> c, interval |-> iv]

DefaultArgs == Args("session", 1, 0)

\* the discovery process before it starts
IdleReg ==
    /\ _nodes = <<>>
    /\ stop_evt = FALSE
    /\ lpc = "check"
    /\ heard = <<>>
    /\ clock = 0
    /\ mpc = "wait"
    /\ host_hint = <<>>
    /\ target = None
    /\ deadline = 0
    /\ args = DefaultArgs
    /\ posts = <<>>
    /\ upd = [t \in Updaters |-> None]

\* key = (name or "_default").strip() or "_default"
DefaultKey == <<"_default">>

SessKeys == {<<"x">>, DefaultKey}

\* the receiver before the first upload
IdleSess ==
    /\ _sessions = [k \in SessKeys |-> None]
    /\ sclock = 0
    /\ dirs = {}
    /\ saved = {}
    /\ tasks = 0
    /\ resolved = <<>>
    /\ ureply = 0

NoStream == [bytes |-> <<>>, frames |-> <<>>, cut |-> 0]

\* the frame receiver in accept, before the first connection
IdleFrame ==
    /\ stream = NoStream
    /\ wire = <<>>
    /\ rpc = "listening"
    /\ rerr = ""
    /\ header = <<>>
    /\ buf = <<>>
    /\ name_len = 0
    /\ img_len = 0
    /\ rname = <<>>
    /\ decoded = <<>>
    /\ consumed = 0
    /\ stored = {}
    /\ acks = 0
    /\ fclock = 0
    /\ nconn = 0
    /\ nsent = 0

\* no sender of this repository: the peers of the receiver are arbitrary
IdleSend ==
    /\ spc = "none"
    /\ si = 0
    /\ stimeout = None
    /\ sargs = [name |-> <<>>, count |-> 0, interval |-> 0]
    /\ sacked = <<>>
    /\ sfail = ""

\* `ip -4 addr show` without an address: the command failed, or its output
\* has no inet line
NoIfOutput(kind) == [kind |-> kind, ip |-> 0, prefix |-> 0]

\* no scan under way
IdleScan ==
    /\ ifout = NoIfOutput("failed")
    /\ net = None
    /\ probes = <<>>
    /\ scanpc = "start"
    /\ scanret = None

(***************************************************************************)
(* capture_service.py: Handler.do_POST and CaptureWorker                   *)
(***************************************************************************)

\* bound of the capture model: the requests the service receives
MaxRequests == 2

\* ThreadingHTTPServer serves every request on a thread of its own: request r
\* is thread r
Requests == 1..MaxRequests

\* str(i)
Str(i) ==
    CASE i = 0 -> "0" [] i = 1 -> "1" [] i = 2 -> "2" [] i = 3 -> "3"
      [] OTHER -> "n"

\* request bodies: "badjson" (json.loads raises), "nonobject" (valid JSON that
\* is no dict), "nonnumeric" (a dict whose count is no number), "object"
Body(k, n, c, iv) == [kind |-> k, name |-> n, count |-> c, interval |-> iv]

Counts == {-1, 0, 1, 3}
Intervals == {0, 1}

Bodies ==
    {Body("badjson", "", 1, 0), Body("nonobject", "", 1, 0), Body("nonnumeric", "t", 1, 0)}
    \cup {Body("object", "t", c, iv) : c \in Counts, iv \in Intervals}

NoReply == [status |-> 0, sent |-> 0, error |-> ""]

IdleCap ==
    /\ lock = 0
    /\ cam = "none"
    /\ hpc = [r \in Requests |-> "none"]
    /\ idx = [r \in Requests |-> 0]
    /\ reply = [r \in Requests |-> NoReply]
    /\ calls = <<>>
    /\ events = <<>>
    /\ ninit = 0

\* a loop that runs one time too few
Iterations_OneLess(count) == IF count > 2 THEN count - 1 ELSE 1

\* max(1, count)
Iterations(count) == IF count > 1 THEN count ELSE 1

\* the name field of the upload of frame i
SentName(name, i) == <<name>>

\* the connection of the upload of frame i of a request: requests.post opens
\* a connection of its own for every call
ConnOf(r, i) == <<r, i>>

\* do_POST up to the call of capture_and_send: 404 for another path, 400 for
\* a body json.loads rejects; a body that is no dict, or a count that is no
\* number, raises outside every try and the request gets no response
Post(path, body) ==
    /\ Len(calls) < MaxRequests
    /\ LET r == Len(calls) + 1
           valid == path = "/capture" /\ body.kind = "object"
       IN  /\ calls' = Append(calls, [path |-> path, kind |-> body.kind,
                                      name |-> body.name, count |-> body.count,
                                      interval |-> body.interval,
                                      status |-> 0, sleeps |-> 0, error |-> "",
                                      init |-> ""])
           /\ hpc' = [hpc EXCEPT ![r] = IF valid THEN "lock"
                                        ELSE IF path = "/capture" /\ body.kind # "badjson"
                                        THEN "crashed" ELSE "done"]
           /\ reply' = [reply EXCEPT ![r] =
                           IF path # "/capture" THEN [status |-> 404, sent |-> 0, error |-> "not found"]
                           ELSE IF body.kind = "badjson"
                           THEN [status |-> 400, sent |-> 0, error |-> "invalid json"]
                           ELSE NoReply]
    /\ UNCHANGED <<lock, cam, idx, events, ninit>>
    /\ UNCHANGED <<regVars, sessVars, frameVars, sendVars, scanVars>>

\* an exception e leaves capture_and_send: do_POST will answer 500 with str(e)
Raise(r, e) == [calls EXCEPT ![r].status = 500, ![r].error = e]

\* capture_and_send without the lock
LockFree_NoLock == TRUE

\* the guard of `with self.lock`
LockFree == lock = 0

\* with self.lock: (entry)
Acquire(r) ==
    /\ hpc[r] = "lock"
    /\ LockFree
    /\ lock' = r
    /\ hpc' = [hpc EXCEPT ![r] = "ensure"]
    /\ UNCHANGED <<cam, idx, reply, calls, events, ninit>>
    /\ UNCHANGED <<regVars, sessVars, frameVars, sendVars, scanVars>>

\* a test that takes a camera that is not started for no camera
HasCam_Started == cam = "started"

\* `self.cam is None` is false
HasCam == cam # "none"

\* _ensure_cam: nothing when self.cam is set; else construct (may raise,
\* self.cam stays None), then configure and start (may raise, self.cam stays
\* set but not started)
EnsureCam(r, outcome) ==
    /\ hpc[r] = "ensure"
    /\ IF HasCam THEN
          /\ outcome = "ok"
          /\ hpc' = [hpc EXCEPT ![r] = "capture"]
          /\ calls' = [calls EXCEPT ![r].init = "reused"]
          /\ UNCHANGED <<cam, ninit>>
       ELSE
          /\ ninit' = IF outcome = "ctor_fail" THEN ninit ELSE ninit + 1
          /\ cam' = CASE outcome = "ok" -> "started"
                      [] outcome = "start_fail" -> "created"
                      [] OTHER -> "none"
          /\ hpc' = [hpc EXCEPT ![r] = IF outcome = "ok" THEN "capture" ELSE "exit"]
          /\ calls' = IF outcome = "ok" THEN [calls EXCEPT ![r].init = outcome]
                      ELSE [Raise(r, "camera") EXCEPT ![r].init = outcome]
    /\ UNCHANGED <<lock, idx, reply, events>>
    /\ UNCHANGED <<regVars, sessVars, frameVars, sendVars, scanVars>>

\* self.cam.capture_array(): a device read; a camera that was never started
\* may fail it
Capture(r, outcome) ==
    /\ hpc[r] = "capture"
    /\ outcome = "fail" => cam = "created"
    /\ events' = Append(events, [call |-> r, kind |-> "read", index |-> Str(idx[r]),
                                 name |-> <<>>, conn |-> ConnOf(0, 0), cam |-> cam,
                                 ok |-> outcome = "ok"])
    /\ hpc' = [hpc EXCEPT ![r] = IF outcome = "ok" THEN "send" ELSE "exit"]
    /\ calls' = IF outcome = "ok" THEN calls ELSE Raise(r, "capture_array")
    /\ UNCHANGED <<lock, cam, idx, reply, ninit>>
    /\ UNCHANGED <<regVars, sessVars, frameVars, sendVars, scanVars>>

\* a test that sleeps after every frame
SleepsAfter_Always(i, count, interval) == interval > 0

\* after frame i: sleep when i < count - 1 and interval > 0
SleepsAfter(i, count, interval) == i < count - 1 /\ interval > 0

\* the end of one iteration of the loop: the next index, or the loop is over
LoopNext(r) ==
    IF idx[r] + 1 >= Iterations(calls[r].count) THEN
       /\ hpc' = [hpc EXCEPT ![r] = "exit"]
       /\ calls' = [calls EXCEPT ![r].status = 200]
       /\ UNCHANGED idx
    ELSE
       /\ hpc' = [hpc EXCEPT ![r] = "capture"]
       /\ idx' = [idx EXCEPT ![r] = @ + 1]
       /\ UNCHANGED calls

\* imencode, then requests.post(.../upload) and raise_for_status, then the
\* test for the sleep
Send(r, outcome) ==
    /\ hpc[r] = "send"
    /\ IF outcome = "encode_fail" THEN
          /\ hpc' = [hpc EXCEPT ![r] = "exit"]
          /\ calls' = Raise(r, "cv2.imencode failed")
          /\ UNCHANGED <<events, idx>>
       ELSE
          /\ events' = Append(events, [call |-> r, kind |-> "send",
                                       index |-> Str(idx[r]),
                                       name |-> SentName(calls[r].name, idx[r]),
                                       conn |-> ConnOf(r, idx[r]), cam |-> cam,
                                       ok |-> outcome = "ok"])
          /\ IF outcome = "post_fail" THEN
                /\ hpc' = [hpc EXCEPT ![r] = "exit"]
                /\ calls' = Raise(r, "upload")
                /\ UNCHANGED idx
             ELSE IF SleepsAfter(idx[r], calls[r].count, calls[r].interval) THEN
                /\ hpc' = [hpc EXCEPT ![r] = "sleep"]
                /\ calls' = [calls EXCEPT ![r].sleeps = @ + 1]
                /\ UNCHANGED idx
             ELSE LoopNext(r)
    /\ UNCHANGED <<lock, cam, reply, ninit>>
    /\ UNCHANGED <<regVars, sessVars, frameVars, sendVars, scanVars>>

\* time.sleep(interval) returns
Wake(r) ==
    /\ hpc[r] = "sleep"
    /\ LoopNext(r)
    /\ UNCHANGED <<lock, cam, reply, events, ninit>>
    /\ UNCHANGED <<regVars, sessVars, frameVars, sendVars, scanVars>>

\* the value of "sent" in the 200 response
SentField(count) == count

\* a lock that is released only when the body ends normally
HeldAfter_Error(r) == IF calls[r].status = 200 THEN 0 ELSE r

\* the lock after the `with self.lock` block is left, normally or by an
\* exception
HeldAfter(r) == 0

\* leaving `with self.lock` (normally or by an exception) releases the lock;
\* do_POST then answers 200 with "sent", or 500 with the error
Release(r) ==
    /\ hpc[r] = "exit"
    /\ lock' = HeldAfter(r)
    /\ hpc' = [hpc EXCEPT ![r] = "done"]
    /\ reply' = [reply EXCEPT ![r] =
                    IF calls[r].status = 200
                    THEN [status |-> 200, sent |-> SentField(calls[r].count), error |-> ""]
                    ELSE [status |-> 500, sent |-> 0, error |-> calls[r].error]]
    /\ UNCHANGED <<cam, idx, calls, events, ninit>>
    /\ UNCHANGED <<regVars, sessVars, frameVars, sendVars, scanVars>>

\* the requests: every body on /capture, one body on another path
PostInputs ==
    {<<"/capture", b>> : b \in Bodies} \cup {<<"/other", Body("object", "t", 1, 0)>>}

InitCap ==
    /\ IdleCap
    /\ IdleReg
    /\ IdleSess
    /\ IdleFrame
    /\ IdleSend
    /\ IdleScan

NextCap ==
    \/ \E in \in PostInputs : Post(in[1], in[2])
    \/ \E r \in Requests : Acquire(r)
    \/ \E r \in Requests, o \in {"ok", "ctor_fail", "start_fail"} : EnsureCam(r, o)
    \/ \E r \in Requests, o \in {"ok", "fail"} : Capture(r, o)
    \/ \E r \in Requests, o \in {"ok", "encode_fail", "post_fail"} : Send(r, o)
    \/ \E r \in Requests : Wake(r)
    \/ \E r \in Requests : Release(r)

SpecCap == InitCap /\ [][NextCap]_vars

(***************************************************************************)
(* listener_thread                                                         *)
(***************************************************************************)

HintChoices == {<<>>, <<"B">>}

InitReg ==
    /\ _nodes = <<>>
    /\ stop_evt = FALSE
    /\ lpc = "check"
    /\ heard = <<>>
    /\ clock = 0
    /\ mpc = "wait"
    /\ host_hint \in HintChoices
    /\ target = None
    /\ deadline = WaitTicks
    /\ args = DefaultArgs
    /\ posts = <<>>
    /\ upd = [t \in Updaters |-> None]
    /\ IdleCap
    /\ IdleSess
    /\ IdleFrame
    /\ IdleSend
    /\ IdleScan

\* a loop test that does not look at the flag
ListenerRuns_Always(flag) == TRUE

\* `while not stop_evt.is_set()`
ListenerRuns(flag) == ~flag

\* the loop test: into recvfrom, or, the flag set, out of the loop and
\* through `finally: sock.close()`
ListenerCheck ==
    /\ lpc = "check"
    /\ lpc' = IF ListenerRuns(stop_evt) THEN "recv" ELSE "stopped"
    /\ UNCHANGED <<_nodes, stop_evt, heard, clock, mpc, host_hint, target, deadline>>
    /\ UNCHANGED <<args, posts, upd>>
    /\ UNCHANGED <<capVars, sessVars, frameVars, sendVars, scanVars>>

\* recvfrom raised socket.timeout or another exception: continue
ListenerNoData ==
    /\ lpc = "recv"
    /\ lpc' = "check"
    /\ UNCHANGED <<_nodes, stop_evt, heard, clock, mpc, host_hint, target, deadline>>
    /\ UNCHANGED <<args, posts, upd>>
    /\ UNCHANGED <<capVars, sessVars, frameVars, sendVars, scanVars>>

\* recvfrom returned a datagram: decode it, and unless json.loads raised,
\* hand the payload to reg.update
ListenerDatagram(payload, src_ip) ==
    /\ lpc = "recv"
    /\ Len(heard) < MaxDatagrams
    /\ heard' = Append(heard, [payload |-> payload, src_ip |-> src_ip])
    /\ _nodes' = IF payload.json = "garbage" THEN _nodes
                 ELSE update(_nodes, payload, src_ip, clock)
    /\ lpc' = "check"
    /\ UNCHANGED <<stop_evt, clock, mpc, host_hint, target, deadline>>
    /\ UNCHANGED <<args, posts, upd>>
    /\ UNCHANGED <<capVars, sessVars, frameVars, sendVars, scanVars>>

\* time passes
TickReg ==
    /\ clock < MaxClock
    /\ clock' = clock + 1
    /\ UNCHANGED <<_nodes, stop_evt, lpc, heard, mpc, host_hint, target, deadline>>
    /\ UNCHANGED <<args, posts, upd>>
    /\ UNCHANGED <<capVars, sessVars, frameVars, sendVars, scanVars>>

(***************************************************************************)
(* main of discover_and_capture.py                                         *)
(***************************************************************************)

\* a loop test that never sees the deadline
WithinWait_Forever == TRUE

\* while time.time() < deadline
WithinWait == clock < deadline

\* one pass of the discovery loop: choose_target returns (break) or raises
\* RuntimeError (sleep, then test the deadline again)
MainTry ==
    /\ mpc = "wait"
    /\ WithinWait
    /\ LET t == choose_target(_nodes, host_hint)
       IN  /\ target' = t
           /\ mpc' = IF t = None THEN "sleep" ELSE "selected"
    /\ UNCHANGED <<_nodes, stop_evt, lpc, heard, clock, host_hint, deadline>>
    /\ UNCHANGED <<args, posts, upd>>
    /\ UNCHANGED <<capVars, sessVars, frameVars, sendVars, scanVars>>

\* time.sleep(0.5) returns
MainWake ==
    /\ mpc = "sleep"
    /\ mpc' = "wait"
    /\ UNCHANGED <<_nodes, stop_evt, lpc, heard, clock, host_hint, target, deadline>>
    /\ UNCHANGED <<args, posts, upd>>
    /\ UNCHANGED <<capVars, sessVars, frameVars, sendVars, scanVars>>

\* the loop ends on the deadline with no target: stop the listener, SystemExit
MainTimeout ==
    /\ mpc = "wait"
    /\ ~WithinWait
    /\ stop_evt' = TRUE
    /\ mpc' = "exit_fail"
    /\ UNCHANGED <<_nodes, lpc, heard, clock, host_hint, target, deadline>>
    /\ UNCHANGED <<args, posts, upd>>
    /\ UNCHANGED <<capVars, sessVars, frameVars, sendVars, scanVars>>

\* the timeout of trigger_capture's POST, in seconds: the default of the
\* parameter, which main does not pass
TRIGGER_TIMEOUT == 30

CAPTURE_PORT_DEFAULT == 8088

\* how the POST ends: with a final response of a status class, or with an
\* exception of requests.post (no connection, timeout)
TriggerOutcomes == {"2xx", "3xx", "4xx", "5xx", "neterr"}

\* a raise_for_status that raises on nothing
Raises_Never(outcome) == FALSE

\* the call raised: requests.post itself, or raise_for_status, which raises
\* HTTPError for the statuses 400..599 and for no other
Raises(outcome) == outcome \in {"4xx", "5xx", "neterr"}

\* trigger_capture: the request it sends
CaptureRequest(pi_info, name, count, interval) ==
    [ip |-> pi_info.ip, port |-> CAPTURE_PORT_DEFAULT, path |-> "/capture",
     name |-> name, count |-> count, interval |-> interval,
     timeout |-> TRIGGER_TIMEOUT]

\* trigger_capture: one POST; raise_for_status raises on a non-2xx answer,
\* requests.post raises on a transport failure; finally: stop_evt.set()
MainTrigger(outcome) ==
    /\ mpc = "selected"
    /\ posts' = Append(posts, [request |-> CaptureRequest(target[1], args.name, args.count,
                                                          args.interval),
                               outcome |-> outcome])
    /\ stop_evt' = TRUE
    /\ mpc' = IF Raises(outcome) THEN "raised" ELSE "done"
    /\ UNCHANGED <<_nodes, lpc, heard, clock, host_hint, target, deadline, args, upd>>
    /\ UNCHANGED <<capVars, sessVars, frameVars, sendVars, scanVars>>

NextReg ==
    \/ ListenerCheck
    \/ ListenerNoData
    \/ \E p \in Payloads, s \in SrcIps : ListenerDatagram(p, s)
    \/ TickReg
    \/ MainTry
    \/ MainWake
    \/ MainTimeout
    \/ \E o \in TriggerOutcomes : MainTrigger(o)

SpecReg == InitReg /\ [][NextReg]_vars

\* bounds of the runs of trigger_capture: --count and --interval (seconds)
MaxCount == 3
MaxIntervalSec == 16

\* main has selected the one camera heard, and is about to call
\* trigger_capture with the --count and --interval of the command line
InitTrig ==
    /\ LET p == Payload("object", "raspi_cam", HostCamA, IpBeacon)
       IN  /\ heard = <<[payload |-> p, src_ip |-> IpSource]>>
           /\ _nodes = update(<<>>, p, IpSource, 0)
           /\ target = latest(_nodes)
    /\ stop_evt = FALSE
    /\ lpc = "check"
    /\ clock = 0
    /\ mpc = "selected"
    /\ host_hint = <<>>
    /\ deadline = WaitTicks
    /\ args \in {Args("session", c, iv) : c \in 1..MaxCount, iv \in 0..MaxIntervalSec}
    /\ posts = <<>>
    /\ upd = [t \in Updaters |-> None]
    /\ IdleCap
    /\ IdleSess
    /\ IdleFrame
    /\ IdleSend
    /\ IdleScan

NextTrig ==
    \/ ListenerCheck
    \/ ListenerNoData
    \/ TickReg
    \/ \E o \in TriggerOutcomes : MainTrigger(o)

SpecTrig == InitTrig /\ [][NextTrig]_vars

(***************************************************************************)
(* RaspiRegistry.update called from several threads                        *)
(***************************************************************************)

\* update up to `with self._lock`: the early returns, then the record is
\* built with now = time.time()
UpdateBuild(t, payload, src_ip) ==
    /\ upd[t] = None
    /\ Len(heard) < MaxDatagrams
    /\ heard' = Append(heard, [payload |-> payload, src_ip |-> src_ip])
    /\ upd' = [upd EXCEPT ![t] = IF Accepted(payload)
                                 THEN Some(InfoOf(payload, src_ip, clock))
                                 ELSE None]
    /\ UNCHANGED <<_nodes, stop_evt, lpc, clock, mpc, host_hint, target, deadline, args,
                   posts>>
    /\ UNCHANGED <<capVars, sessVars, frameVars, sendVars, scanVars>>

\* with self._lock: self._nodes[key] = info
UpdateStore(t) ==
    /\ upd[t] # None
    /\ _nodes' = DictSet(_nodes, KeyOf(upd[t][1].host, upd[t][1].ip), upd[t][1])
    /\ upd' = [upd EXCEPT ![t] = None]
    /\ UNCHANGED <<stop_evt, lpc, heard, clock, mpc, host_hint, target, deadline, args,
                   posts>>
    /\ UNCHANGED <<capVars, sessVars, frameVars, sendVars, scanVars>>

InitUpd == IdleReg /\ IdleCap /\ IdleSess /\ IdleFrame /\ IdleSend /\ IdleScan

NextUpd ==
    \/ \E t \in Updaters, p \in Payloads, ip \in SrcIps : UpdateBuild(t, p, ip)
    \/ \E t \in Updaters : UpdateStore(t)
    \/ TickReg

SpecUpd == InitUpd /\ [][NextUpd]_vars

\* the datagrams of the liveness runs: a beacon of each camera
LivePayloads ==
    {Payload("object", "raspi_cam", HostCamA, IpBeacon),
     Payload("object", "raspi_cam", HostCamB, IpBeacon)}

NextRegLive ==
    \/ ListenerCheck
    \/ ListenerNoData
    \/ \E p \in LivePayloads : ListenerDatagram(p, IpSource)
    \/ TickReg
    \/ MainTry
    \/ MainWake
    \/ MainTimeout
    \/ \E o \in TriggerOutcomes : MainTrigger(o)

\* a step of the main thread
MainStep ==
    \/ MainTry
    \/ MainWake
    \/ MainTimeout
    \/ \E o \in TriggerOutcomes : MainTrigger(o)

\* a step of the listener thread; its recvfrom returns or raises within the
\* socket's timeout of one second
ListenerStep ==
    \/ ListenerCheck
    \/ ListenerNoData
    \/ \E p \in LivePayloads : ListenerDatagram(p, IpSource)

\* the same process on a machine where time passes and both threads get to
\* run
SpecRegLive ==
    /\ InitReg
    /\ [][NextRegLive]_vars
    /\ WF_vars(TickReg)
    /\ WF_vars(MainStep)
    /\ WF_vars(ListenerStep)

(***************************************************************************)
(* receiver_vlm.py: _session_dir and POST /upload                          *)
(***************************************************************************)

\* bound of the session model: the uploads the receiver gets
MaxUploads == 3

\* the clock is counted in ticks of half a second; the stamps in directory
\* and file names have a resolution of one second
TicksPerSec == 2
SESSION_REUSE_SEC == 120

\* the time between one upload and the next, in ticks: none, exactly the
\* reuse window, half a second more than the reuse window
Delays == {0, SESSION_REUSE_SEC * TicksPerSec, SESSION_REUSE_SEC * TicksPerSec + 1}

\* strftime("%Y_%m_%d___%H_%M_%S") of the time t
Stamp(t) == t \div TicksPerSec

SAVE_ROOT == <<"tmp", "incoming_frames">>

\* SAVE_ROOT / session_hint and SAVE_ROOT / stamp
HintDir(hint) == [under |-> SAVE_ROOT, hint |-> hint, stamp |-> -1]
StampDir(stamp) == [under |-> SAVE_ROOT, hint |-> <<>>, stamp |-> stamp]

\* str.strip()
RECURSIVE Strip(_)
Strip(x) ==
    IF x = <<>> THEN x
    ELSE IF Head(x) = " " THEN Strip(Tail(x))
    ELSE IF x[Len(x)] = " " THEN Strip(SubSeq(x, 1, Len(x) - 1))
    ELSE x

SessionKey(name) == OrElse(Strip(OrElse(name, DefaultKey)), DefaultKey)

\* a reuse test that ends the window one tick early
ReuseValid_Strict(now, created_at) ==
    now - created_at < SESSION_REUSE_SEC * TicksPerSec

\* now - sess[1] <= SESSION_REUSE_SEC
ReuseValid(now, created_at) ==
    now - created_at <= SESSION_REUSE_SEC * TicksPerSec

\* a _session_dir that consults the cache before the hint
_session_dir_CacheFirst(sessions, name, session_hint, now) ==
    LET key  == SessionKey(name)
        sess == sessions[key]
    IN  IF sess # None /\ ReuseValid(now, sess[1].created_at)
        THEN [dir |-> sess[1].dir, sessions |-> sessions, made |-> {},
              created_at |-> sess[1].created_at]
        ELSE IF session_hint # <<>>
        THEN [dir |-> HintDir(session_hint), sessions |-> sessions,
              made |-> {HintDir(session_hint)}, created_at |-> -1]
        ELSE LET d == StampDir(Stamp(now))
             IN  [dir |-> d,
                  sessions |-> [sessions EXCEPT ![key] =
                                   Some([dir |-> d, created_at |-> now])],
                  made |-> {d}, created_at |-> now]

\* _session_dir: the directory returned, the cache afterwards, the directory
\* mkdir was called on, and the created_at of the cache entry used
_session_dir(sessions, name, session_hint, now) ==
    IF session_hint # <<>>
    THEN [dir |-> HintDir(session_hint), sessions |-> sessions,
          made |-> {HintDir(session_hint)}, created_at |-> -1]
    ELSE LET key  == SessionKey(name)
             sess == sessions[key]
         IN  IF sess # None /\ ReuseValid(now, sess[1].created_at)
             THEN [dir |-> sess[1].dir, sessions |-> sessions, made |-> {},
                   created_at |-> sess[1].created_at]
             ELSE LET d == StampDir(Stamp(now))
                  IN  [dir |-> d,
                       sessions |-> [sessions EXCEPT ![key] =
                                        Some([dir |-> d, created_at |-> now])],
                       made |-> {d}, created_at |-> now]

UploadNames == {<<"x">>, <<"x", " ">>, <<>>}
UploadHints == {<<>>, <<"s">>, <<" ">>}

\* the requests: without a file (with and without a session field), or with
\* a file, a name and a session field
UploadInputs ==
    {[file |-> FALSE, name |-> <<"x">>, session |-> h] : h \in {<<>>, <<"s">>}}
    \cup {[file |-> TRUE, name |-> n, session |-> h] : n \in UploadNames, h \in UploadHints}

\* a test that finds a file in every request
NoFile_Never(in) == FALSE

\* `if not f`: the request has no image part (or one with an empty filename)
NoFile(in) == ~in.file

\* upload(): 400 without the image; else resolve the session directory, save
\* the image under name, second and index, start the annotation thread, 200
Upload(in, delay) ==
    /\ Len(resolved) < MaxUploads
    /\ sclock' = sclock + delay
    /\ LET now  == sclock + delay
           hint == Strip(in.session)
           res  == _session_dir(_sessions, in.name, hint, now)
       IN  IF NoFile(in) THEN
              /\ ureply' = 400
              /\ resolved' = Append(resolved, [file |-> in.file, name |-> in.name, hint |-> hint,
                                               at |-> now, dir |-> None, created_at |-> -1])
              /\ UNCHANGED <<_sessions, dirs, saved, tasks>>
           ELSE
              /\ ureply' = 200
              /\ _sessions' = res.sessions
              /\ dirs' = dirs \cup res.made
              /\ saved' = saved \cup {[dir |-> res.dir, name |-> in.name,
                                       stamp |-> Stamp(now), index |-> "0"]}
              /\ tasks' = tasks + 1
              /\ resolved' = Append(resolved, [file |-> in.file, name |-> in.name, hint |-> hint,
                                               at |-> now, dir |-> Some(res.dir),
                                               created_at |-> res.created_at])
    /\ UNCHANGED <<regVars, capVars, frameVars, sendVars, scanVars>>

InitSess ==
    /\ IdleSess
    /\ IdleReg
    /\ IdleCap
    /\ IdleFrame
    /\ IdleSend
    /\ IdleScan

NextSess ==
    \E in \in UploadInputs, d \in Delays : Upload(in, d)

SpecSess == InitSess /\ [][NextSess]_vars

(***************************************************************************)
(* The TCP frame protocol: cam_sender_picam2.py (layout) and               *)
(* frame_receiver.py (handle_client, recv_exact, main)                     *)
(***************************************************************************)

\* bounds of the frame model: connections accepted, frames put on them, and
\* the seconds the receiver's clock runs
MaxConns == 2
MaxFrames == 2
MaxSecs == 1

\* b"IMG1"
MAGIC == <<73, 77, 71, 49>>
\* four bytes that are not the magic
BadMagic == <<73, 77, 71, 50>>

\* struct.pack("!H", n) and struct.unpack("!H", b)[0]
Pack16(n) == <<(n \div 256) % 256, n % 256>>

\* an unpack that reads the low byte first
Unpack16_LittleEndian(b) == b[1] + b[2] * 256

Unpack16(b) == b[1] * 256 + b[2]

\* struct.pack("!I", n) and struct.unpack("!I", b)[0]
Pack32(n) ==
    <<(n \div 16777216) % 256, (n \div 65536) % 256, (n \div 256) % 256, n % 256>>

Unpack32(b) == b[1] * 16777216 + b[2] * 65536 + b[3] * 256 + b[4]

\* UTF-8 on the bytes the model uses: ASCII, the two-byte sequences (lead
\* 194..223, continuation 128..191) and bytes that are valid nowhere (255).
IsLead2(b) == b >= 194 /\ b <= 223
IsCont(b) == b >= 128 /\ b <= 191

\* str.encode("utf-8") of a text of code points below 2048
RECURSIVE Utf8Encode(_)
Utf8Encode(text) ==
    IF text = <<>> THEN <<>>
    ELSE LET cp == Head(text)
         IN  (IF cp < 128 THEN <<cp>> ELSE <<192 + (cp \div 64), 128 + (cp % 64)>>)
             \o Utf8Encode(Tail(text))

\* bytes.decode("utf-8", "ignore"): a byte that starts no valid sequence is
\* dropped
RECURSIVE Utf8Decode(_)
Utf8Decode(bs) ==
    IF bs = <<>> THEN <<>>
    ELSE IF Head(bs) < 128 THEN <<Head(bs)>> \o Utf8Decode(Tail(bs))
    ELSE IF IsLead2(Head(bs)) /\ Len(bs) >= 2 /\ IsCont(bs[2])
    THEN <<(Head(bs) - 192) * 64 + (bs[2] - 128)>> \o Utf8Decode(SubSeq(bs, 3, Len(bs)))
    ELSE Utf8Decode(Tail(bs))

\* the sender's layout of one frame: magic, name_len, img_len, name, image
EncodeFrame(magic, name_bytes, img_bytes) ==
    magic \o Pack16(Len(name_bytes)) \o Pack32(Len(img_bytes)) \o name_bytes \o img_bytes

\* the frames a peer sends: name bytes "t", "é" (two bytes), an invalid byte,
\* or no name; an image of one byte or none; and one frame with a wrong magic
Frame(m, n, i) == [magic |-> m, name |-> n, img |-> i]

FrameChoices ==
    {Frame(MAGIC, <<116>>, <<7>>),
     Frame(MAGIC, <<195, 169>>, <<>>),
     Frame(MAGIC, <<>>, <<7>>),
     Frame(MAGIC, <<255>>, <<7>>),
     Frame(BadMagic, <<116>>, <<7>>)}

RECURSIVE EncodeFrames(_)
EncodeFrames(fs) ==
    IF fs = <<>> THEN <<>>
    ELSE EncodeFrame(fs[1].magic, fs[1].name, fs[1].img) \o EncodeFrames(Tail(fs))

\* what a peer puts on a connection before it closes: some frames, the last
\* one whole (cut = 0) or only its first cut bytes
StreamOf(fs, cut) ==
    [bytes  |-> IF cut = 0 THEN EncodeFrames(fs)
                ELSE EncodeFrames(SubSeq(fs, 1, Len(fs) - 1))
                     \o SubSeq(EncodeFrames(<<fs[Len(fs)]>>), 1, cut),
     frames |-> fs,
     cut    |-> cut]

Streams(n) ==
    {StreamOf(fs, cut) :
        <<fs, cut>> \in {x \in (UNION {[1..k -> FrameChoices] : k \in 0..n}) \X (0..11) :
                            x[2] > 0 => /\ x[1] # <<>>
                                        /\ x[2] < Len(EncodeFrames(<<x[1][Len(x[1])]>>))}}

\* main: accept the next connection
Accept(s) ==
    /\ rpc \in {"listening", "closed", "error"}
    /\ nconn < MaxConns
    /\ nsent + Len(s.frames) <= MaxFrames
    /\ nconn' = nconn + 1
    /\ nsent' = nsent + Len(s.frames)
    /\ stream' = s
    /\ wire' = s.bytes
    /\ rpc' = "magic"
    /\ rerr' = ""
    /\ header' = <<>>
    /\ buf' = <<>>
    /\ name_len' = 0
    /\ img_len' = 0
    /\ rname' = <<>>
    /\ decoded' = <<>>
    /\ consumed' = 0
    /\ UNCHANGED <<stored, acks, fclock>>
    /\ UNCHANGED <<regVars, capVars, sessVars, sendVars, scanVars>>

\* a test that takes a short header for the end of the stream
HeaderEmpty_Short(h) == Len(h) < 4

\* a test that never sees the end of the stream
HeaderEmpty_Never(h) == FALSE

\* `if not header`
HeaderEmpty(h) == h = <<>>

\* a comparison that lets any four bytes pass
IsMagic_AnyFour(h) == Len(h) = 4

\* header == b"IMG1"
IsMagic(h) == h = MAGIC

\* the peer has closed its end: an arbitrary peer has sent all it sends, the
\* sender of this repository has left its `with` block
PeerClosed == spc \in {"none", "done", "failed"}

\* header = conn.recv(4): nothing when the peer has closed, else up to 4 of
\* the bytes in flight; break on nothing, ValueError on anything but the magic
ReadMagic(n) ==
    /\ rpc = "magic"
    /\ n <= Len(wire)
    /\ n = 0 => (wire = <<>> /\ PeerClosed)
    /\ header' = SubSeq(wire, 1, n)
    /\ wire' = SubSeq(wire, n + 1, Len(wire))
    /\ buf' = <<>>
    /\ IF HeaderEmpty(header') THEN rpc' = "closed" /\ rerr' = ""
       ELSE IF ~IsMagic(header') THEN rpc' = "error" /\ rerr' = "bad magic"
       ELSE rpc' = "name_len" /\ rerr' = ""
    /\ UNCHANGED <<stream, name_len, img_len, rname, decoded, consumed, stored, acks,
                   fclock, nconn, nsent>>
    /\ UNCHANGED <<regVars, capVars, sessVars, sendVars, scanVars>>

\* the n of the recv_exact(conn, n) in progress
Need ==
    CASE rpc = "name_len" -> 2
      [] rpc = "img_len" -> 4
      [] rpc = "name" -> name_len
      [] rpc = "img" -> img_len
      [] OTHER -> 0

InRecvExact == rpc \in {"name_len", "img_len", "name", "img"}

\* recv_exact's loop body: chunk = conn.recv(n - len(data)); nothing means
\* the peer has closed: ConnectionError
RecvChunk(n) ==
    /\ InRecvExact
    /\ Len(buf) < Need
    /\ n <= Need - Len(buf)
    /\ n <= Len(wire)
    /\ n = 0 => (wire = <<>> /\ PeerClosed)
    /\ IF n = 0 THEN
          /\ rpc' = "error"
          /\ rerr' = "socket closed"
          /\ UNCHANGED <<buf, wire>>
       ELSE
          /\ buf' = buf \o SubSeq(wire, 1, n)
          /\ wire' = SubSeq(wire, n + 1, Len(wire))
          /\ UNCHANGED <<rpc, rerr>>
    /\ UNCHANGED <<stream, header, name_len, img_len, rname, decoded, consumed, stored,
                   acks, fclock, nconn, nsent>>
    /\ UNCHANGED <<regVars, capVars, sessVars, sendVars, scanVars>>

\* recv_exact returns the n bytes: the length fields are unpacked, the name
\* is decoded
FieldDone ==
    /\ rpc \in {"name_len", "img_len", "name"}
    /\ Len(buf) = Need
    /\ CASE rpc = "name_len" ->
              /\ name_len' = Unpack16(buf)
              /\ rpc' = "img_len"
              /\ UNCHANGED <<img_len, rname>>
         [] rpc = "img_len" ->
              /\ img_len' = Unpack32(buf)
              /\ rpc' = "name"
              /\ UNCHANGED <<name_len, rname>>
         [] rpc = "name" ->
              /\ rname' = Utf8Decode(buf)
              /\ rpc' = "img"
              /\ UNCHANGED <<name_len, img_len>>
    /\ buf' = <<>>
    /\ UNCHANGED <<stream, wire, rerr, header, decoded, consumed, stored, acks, fclock,
                   nconn, nsent>>
    /\ UNCHANGED <<regVars, capVars, sessVars, sendVars, scanVars>>

\* "frame", the prefix of a file saved for a frame with no name
FramePrefix == <<102, 114, 97, 109, 101>>

\* fname: f"{name}_{ts}.jpg" if name else f"frame_{ts}.jpg"
FileName(name, ts) == [prefix |-> IF name # <<>> THEN name ELSE FramePrefix, ts |-> ts]

\* open(path, "wb").write(img): a file of that name is replaced
WriteFile(files, fname, img) ==
    {f \in files : f.fname # fname} \cup {[fname |-> fname, img |-> img]}

\* how conn.sendall(b"OK") can end: written, or an OSError (broken pipe,
\* connection reset) once the peer has closed
AckOutcomes == {"ok", "fail"}

\* the image has been read: ts is taken from the clock, dt seconds after the
\* last time it was read, the file is written, then b"OK" is sent
StoreFrame(dt, ack) ==
    /\ rpc = "img"
    /\ Len(buf) = Need
    /\ fclock + dt <= MaxSecs
    /\ ack = "fail" => PeerClosed
    /\ fclock' = fclock + dt
    /\ stored' = WriteFile(stored, FileName(rname, fclock'), buf)
    /\ decoded' = Append(decoded, [name |-> rname, img |-> buf])
    /\ consumed' = Len(stream.bytes) - Len(wire)
    /\ IF ack = "ok"
       THEN acks' = acks + 1 /\ rpc' = "magic" /\ rerr' = rerr
       ELSE acks' = acks /\ rpc' = "error" /\ rerr' = "broken pipe"
    /\ buf' = <<>>
    /\ UNCHANGED <<stream, wire, header, name_len, img_len, rname, nconn, nsent>>
    /\ UNCHANGED <<regVars, capVars, sessVars, sendVars, scanVars>>

InitFrame == IdleReg /\ IdleCap /\ IdleSess /\ IdleFrame /\ IdleSend /\ IdleScan

NextFrame ==
    \/ \E s \in Streams(MaxFrames - nsent) : Accept(s)
    \/ \E n \in 0..4 : ReadMagic(n)
    \/ \E n \in 0..4 : RecvChunk(n)
    \/ FieldDone
    \/ \E dt \in 0..1, ack \in AckOutcomes : StoreFrame(dt, ack)

SpecFrame == InitFrame /\ [][NextFrame]_vars

(***************************************************************************)
(* cam_sender_picam2.py: main, on one connection to frame_receiver.py      *)
(***************************************************************************)

\* socket.create_connection(..., timeout=5) and sock.settimeout(0.5), in
\* tenths of a second
CONNECT_TIMEOUT == 50
ACK_TIMEOUT == 5

\* how long the link and the receiver let one sendall last, in tenths of a
\* second: at once, or one second
SendDurations == {0, 10}

\* args.name and args.interval of the runs modelled; args.count is 0..MaxFrames
SenderNames == {<<116>>, <<233>>}
SenderIntervals == {0, 1}

\* jpg.tobytes() of the frame captured in iteration i
ImageOf(i) == <<i + 1>>

\* the sendall calls of one iteration, in order
SendFields == <<"magic", "name_len", "img_len", "name", "img">>

FieldIndex(f) == CHOOSE k \in 1..Len(SendFields) : SendFields[k] = f

\* the argument of the sendall at spc
SendBytes(f) ==
    CASE f = "magic" -> MAGIC
      [] f = "name_len" -> Pack16(Len(Utf8Encode(sargs.name)))
      [] f = "img_len" -> Pack32(Len(ImageOf(si)))
      [] f = "name" -> Utf8Encode(sargs.name)
      [] f = "img" -> ImageOf(si)

\* a blocking call on a socket with timeout t that lasts d raises
\* socket.timeout; a socket without a timeout waits
TimesOut(t, d) == t # None /\ d >= t[1]

\* the receiver has closed the connection: handle_client returned or raised
ReceiverClosed == rpc \in {"closed", "error"}

\* the acknowledgment bytes the sender has read, and those written by the
\* receiver and not read yet
RECURSIVE AckBytesRead(_)
AckBytesRead(log) ==
    IF log = <<>> THEN 0 ELSE log[1].n + AckBytesRead(Tail(log))

AckAvail == 2 * acks - AckBytesRead(sacked)

\* lines 34-42: the camera is created and started, then the connection is
\* made; the receiver's main accepts it
SenderStart(outcome) ==
    /\ spc = "start"
    /\ rpc = "listening"
    /\ IF outcome = "ok" THEN
          /\ spc' = "loop"
          /\ stimeout' = Some(CONNECT_TIMEOUT)
          /\ sfail' = ""
          /\ nconn' = nconn + 1
          /\ rpc' = "magic"
       ELSE
          /\ spc' = "failed"
          /\ sfail' = outcome
          /\ UNCHANGED <<stimeout, nconn, rpc>>
    /\ UNCHANGED <<si, sargs, sacked>>
    /\ UNCHANGED <<stream, wire, rerr, header, buf, name_len, img_len, rname, decoded,
                   consumed, stored, acks, fclock, nsent>>
    /\ UNCHANGED <<regVars, capVars, sessVars, scanVars>>

\* line 43, `for i in range(args.count)`: another frame is captured and
\* encoded (lines 45-50), or the loop is over, the socket is closed and the
\* camera stopped
SenderLoop(outcome) ==
    /\ spc = "loop"
    /\ IF si < sargs.count THEN
          IF outcome = "ok"
          THEN spc' = "magic" /\ sfail' = "" /\ nsent' = nsent
          ELSE spc' = "failed" /\ sfail' = "cv2.imencode failed" /\ nsent' = nsent
       ELSE
          /\ outcome = "ok"
          /\ spc' = "done"
          /\ UNCHANGED <<sfail, nsent>>
    /\ UNCHANGED <<si, stimeout, sargs, sacked>>
    /\ UNCHANGED <<stream, wire, rpc, rerr, header, buf, name_len, img_len, rname, decoded,
                   consumed, stored, acks, fclock, nconn>>
    /\ UNCHANGED <<regVars, capVars, sessVars, scanVars>>

\* lines 53-57, one sock.sendall: it lasts d.  Under the socket's timeout it
\* either puts all its bytes on the connection or raises socket.timeout with
\* only the first k of them sent
SenderSend(d, k) ==
    /\ spc \in {"magic", "name_len", "img_len", "name", "img"}
    /\ LET bytes == SendBytes(spc)
           last == spc = SendFields[Len(SendFields)]
       IN  IF TimesOut(stimeout, d) /\ bytes # <<>> THEN
              /\ k < Len(bytes)
              /\ wire' = wire \o SubSeq(bytes, 1, k)
              /\ spc' = "failed"
              /\ sfail' = "timed out"
              /\ nsent' = nsent
           ELSE
              /\ k = Len(bytes)
              /\ wire' = wire \o bytes
              /\ spc' = IF last THEN "ack" ELSE SendFields[FieldIndex(spc) + 1]
              /\ sfail' = ""
              /\ nsent' = IF last THEN nsent + 1 ELSE nsent
    /\ UNCHANGED <<si, stimeout, sargs, sacked>>
    /\ UNCHANGED <<stream, rpc, rerr, header, buf, name_len, img_len, rname, decoded,
                   consumed, stored, acks, fclock, nconn>>
    /\ UNCHANGED <<regVars, capVars, sessVars, scanVars>>

\* a sock.sendall after the receiver has closed the connection: an OSError
SenderSendReset ==
    /\ spc \in {"magic", "name_len", "img_len", "name", "img"}
    /\ ReceiverClosed
    /\ spc' = "failed"
    /\ sfail' = "broken pipe"
    /\ UNCHANGED <<si, stimeout, sargs, sacked>>
    /\ UNCHANGED frameVars
    /\ UNCHANGED <<regVars, capVars, sessVars, scanVars>>

\* how the sender's sock.recv(2) can end
AckReads == {"data", "eof", "timeout", "reset"}

\* lines 60-68: settimeout(0.5); recv(2); settimeout(None), the last only
\* when recv raised nothing; any exception is passed over.  Then the test
\* for the sleep between frames.
SenderAck(res, n) ==
    /\ spc = "ack"
    /\ CASE res = "data" -> n >= 1 /\ n <= 2 /\ n <= AckAvail
         [] res = "eof" -> n = 0 /\ AckAvail = 0 /\ ReceiverClosed
         [] res = "timeout" -> n = 0 /\ AckAvail = 0 /\ ~ReceiverClosed
         [] res = "reset" -> n = 0 /\ ReceiverClosed
    /\ sacked' = Append(sacked, [i |-> si, res |-> res, n |-> n])
    /\ stimeout' = IF res \in {"data", "eof"} THEN None ELSE Some(ACK_TIMEOUT)
    /\ IF si < sargs.count - 1 /\ sargs.interval > 0
       THEN spc' = "sleep" /\ si' = si
       ELSE spc' = "loop" /\ si' = si + 1
    /\ UNCHANGED <<sargs, sfail>>
    /\ UNCHANGED frameVars
    /\ UNCHANGED <<regVars, capVars, sessVars, scanVars>>

\* time.sleep(args.interval) returns
SenderWake ==
    /\ spc = "sleep"
    /\ spc' = "loop"
    /\ si' = si + 1
    /\ UNCHANGED <<stimeout, sargs, sacked, sfail>>
    /\ UNCHANGED frameVars
    /\ UNCHANGED <<regVars, capVars, sessVars, scanVars>>

\* a sender about to start, the receiver in accept
InitLink ==
    /\ IdleReg
    /\ IdleCap
    /\ IdleSess
    /\ IdleFrame
    /\ IdleScan
    /\ spc = "start"
    /\ si = 0
    /\ stimeout = None
    /\ sargs \in [name : SenderNames, count : 0..MaxFrames, interval : SenderIntervals]
    /\ sacked = <<>>
    /\ sfail = ""

NextLink ==
    \/ \E outcome \in {"ok", "camera failed", "connection refused"} : SenderStart(outcome)
    \/ \E outcome \in {"ok", "encode failed"} : SenderLoop(outcome)
    \/ \E d \in SendDurations, k \in 0..4 : SenderSend(d, k)
    \/ SenderSendReset
    \/ \E res \in AckReads, n \in 0..2 : SenderAck(res, n)
    \/ SenderWake
    \/ \E n \in 0..4 : ReadMagic(n)
    \/ \E n \in 0..4 : RecvChunk(n)
    \/ FieldDone
    \/ \E dt \in 0..1, ack \in AckOutcomes : StoreFrame(dt, ack)

SpecLink == InitLink /\ [][NextLink]_vars

(***************************************************************************)
(* capture_service.py: discover_receiver_via_scan and _get_wlan_subnet     *)
(***************************************************************************)

\* addresses are AddrBits wide (32 in IPv4, 4 here); the subnets scanned have
\* at most MaxHostBits host bits
AddrBits == 4
MaxHostBits == 3

\* the port the scan is given
SCAN_PORT == 5001

\* 2^n
RECURSIVE Pow2(_)
Pow2(n) == IF n = 0 THEN 1 ELSE 2 * Pow2(n - 1)

\* the interface's own address, and the prefix lengths `ip` may print
OwnIps == {6, 9}
Prefixes == {0} \cup ((AddrBits - MaxHostBits)..AddrBits)

\* what subprocess.check_output gives: it raises, or the text has no line
\* starting with "inet ", or its first such line carries ip/prefix
IfOutputs ==
    {NoIfOutput("failed"), NoIfOutput("no inet")}
    \cup [kind : {"inet"}, ip : OwnIps, prefix : Prefixes]

\* _get_wlan_subnet: None when the command failed, when there is no inet
\* line, or when `ip and prefix` is false (a prefix of 0); else
\* IPv4Network(f"{ip}/{prefix}", strict=False), the host bits cleared
_get_wlan_subnet(out) ==
    IF out.kind # "inet" THEN None
    ELSE IF out.prefix = 0 THEN None
    ELSE LET size == Pow2(AddrBits - out.prefix)
         IN  Some([base |-> out.ip - (out.ip % size), prefix |-> out.prefix])

\* the addresses from a up to b, in order
RECURSIVE Range(_, _)
Range(a, b) == IF a > b THEN <<>> ELSE <<a>> \o Range(a + 1, b)

\* IPv4Network.hosts(): the addresses of the network in ascending order
\* without the network and the broadcast address; both addresses of a
\* network with one host bit, the one address of a network with none
Hosts(n) ==
    LET size == Pow2(AddrBits - n.prefix)
    IN  IF size <= 2 THEN Range(n.base, n.base + size - 1)
        ELSE Range(n.base + 1, n.base + size - 2)

\* how requests.get(url, timeout) and r.json() end: an exception of the GET
\* (timeout, refused), or a final response with a status and a body that is
\* no JSON, a JSON value that is no object, or an object with its "ok" and
\* "status" members
Response(st, js, ok, status) ==
    [exc |-> FALSE, status_code |-> st, json |-> js, ok |-> ok, status |-> status]

GetFailed == [exc |-> TRUE, status_code |-> 0, json |-> "invalid", ok |-> "absent",
              status |-> "absent"]

ProbeResults ==
    {GetFailed,
     Response(503, "object", "true", "ok"),
     Response(200, "invalid", "absent", "absent"),
     Response(200, "value", "absent", "absent"),
     Response(200, "object", "1", "up"),
     Response(200, "object", "true", "absent"),
     Response(200, "object", "absent", "ok")}

\* a test that takes any 200 for a receiver
IsReceiver_Any200(r) == ~r.exc /\ r.status_code = 200

\* lines 120-133: the GET raised nothing, the status is 200, r.json() raised
\* nothing, and the value is a dict with "ok" the constant True or "status"
\* equal to "ok"
IsReceiver(r) ==
    /\ ~r.exc
    /\ r.status_code = 200
    /\ r.json # "invalid"
    /\ r.json = "object"
    /\ (r.ok = "true" \/ r.status = "ok")

\* f"http://{ip}:{port}"
BaseUrl(ip, port) == [scheme |-> "http", ip |-> ip, port |-> port]

\* lines 111-114: the subnet; without one the scan returns None
ScanStart ==
    /\ scanpc = "start"
    /\ net' = _get_wlan_subnet(ifout)
    /\ IF net' = None
       THEN scanpc' = "returned" /\ scanret' = None
       ELSE scanpc' = "probing" /\ scanret' = scanret
    /\ UNCHANGED <<ifout, probes>>
    /\ UNCHANGED <<regVars, capVars, sessVars, frameVars, sendVars>>

\* one pass of `for ip in net.hosts()`: GET /health of the next host; return
\* its base URL if it answers as a receiver, else go on, and return None
\* after the last host
ScanProbe(r) ==
    /\ scanpc = "probing"
    /\ LET hosts == Hosts(net[1])
           ip == hosts[Len(probes) + 1]
       IN  /\ probes' = Append(probes, [ip |-> ip, port |-> SCAN_PORT, path |-> "/health",
                                        resp |-> r])
           /\ IF IsReceiver(r)
              THEN scanpc' = "returned" /\ scanret' = Some(BaseUrl(ip, SCAN_PORT))
              ELSE IF Len(probes') = Len(hosts)
              THEN scanpc' = "returned" /\ scanret' = None
              ELSE scanpc' = "probing" /\ scanret' = scanret
    /\ UNCHANGED <<ifout, net>>
    /\ UNCHANGED <<regVars, capVars, sessVars, frameVars, sendVars>>

InitScan ==
    /\ IdleReg
    /\ IdleCap
    /\ IdleSess
    /\ IdleFrame
    /\ IdleSend
    /\ ifout \in IfOutputs
    /\ net = None
    /\ probes = <<>>
    /\ scanpc = "start"
    /\ scanret = None

NextScan ==
    \/ ScanStart
    \/ \E r \in ProbeResults : ScanProbe(r)

SpecScan == InitScan /\ [][NextScan]_vars

(***************************************************************************)
(* Properties of the registry                                              *)
(***************************************************************************)

\* the payloads heard so far that update accepts, with the key each is filed under
HeardKeys ==
    {KeyOf(OrElse(heard[k].payload.host, HostDefault),
           OrElse(heard[k].payload.ip, heard[k].src_ip)) :
        k \in {j \in 1..Len(heard) : /\ heard[j].payload.json = "object"
                                     /\ heard[j].payload.type = "raspi_cam"}}

\* C2: update is an upsert, idempotent per identity: the table never holds two
\* records under one host@ip key, every record is filed under the key of its
\* own host and ip, and list_all() has exactly one record per distinct key
\* among the raspi_cam beacons received, however often each was repeated.
C2_UpsertOnePerKey ==
    /\ \A i, j \in 1..Len(_nodes) : _nodes[i].key = _nodes[j].key => i = j
    /\ \A i \in 1..Len(_nodes) :
          _nodes[i].key = KeyOf(_nodes[i].info.host, _nodes[i].info.ip)
    /\ Len(list_all(_nodes)) = Cardinality(HeardKeys)
    /\ {_nodes[i].key : i \in 1..Len(_nodes)} = HeardKeys

\* the same raspi_cam beacon was received twice and the table holds one record
C2_Witness ==
    /\ Len(heard) = 2
    /\ heard[1] = heard[2]
    /\ heard[1].payload.type = "raspi_cam"
    /\ Len(list_all(_nodes)) = 1

\* C3: latest() is None exactly when the table is empty, and otherwise is a
\* record of the table whose last_seen is at least that of every record of
\* list_all() and of the table.
C3_LatestIsNewest ==
    /\ (latest(_nodes) = None) <=> (_nodes = <<>>)
    /\ _nodes # <<>> =>
          LET r == latest(_nodes)[1]
              items == list_all(_nodes)
          IN  /\ \E i \in 1..Len(_nodes) : _nodes[i].info = r
              /\ \A k \in 1..Len(items) : r.last_seen >= items[k].last_seen
              /\ \A i \in 1..Len(_nodes) : r.last_seen >= _nodes[i].info.last_seen

\* two records, the newer one inserted second, and latest() is the newer one
C3_Witness ==
    /\ Len(_nodes) = 2
    /\ _nodes[1].info.last_seen < _nodes[2].info.last_seen
    /\ latest(_nodes) = Some(_nodes[2].info)

\* the scenario of C4: a beacon of cam-A, then a later beacon of cam-B, and
\* nothing else
CamAThenCamB ==
    /\ Len(heard) = 2
    /\ Accepted(heard[1].payload) /\ heard[1].payload.host = HostCamA
    /\ Accepted(heard[2].payload) /\ heard[2].payload.host = HostCamB
    /\ Len(_nodes) = 2
    /\ _nodes[1].info.last_seen < _nodes[2].info.last_seen

MatchesHint(hint, host) == Contains(Lower(hint), Lower(host))

\* C4 as stated: with cam-A registered and then, later, cam-B,
\* find_by_host("a") returns the cam-A record.
C4_Original ==
    CamAThenCamB =>
        /\ find_by_host(_nodes, <<"a">>) # None
        /\ find_by_host(_nodes, <<"a">>)[1].host = HostCamA

\* C4 as amended: find_by_host returns None exactly when no host contains the
\* hint, ignoring case, and otherwise the first record in list_all() order
\* (newest first) whose host does; with cam-A and then, later, cam-B
\* registered, find_by_host("a") is the cam-B record, because "cam-b" contains
\* "a" too, and find_by_host("-a") and find_by_host("-A") are the cam-A record.
C4_NewestMatch ==
    LET items == list_all(_nodes)
    IN  /\ \A hint \in {<<"a">>, <<"B">>, <<"-", "A">>, <<"z">>, <<"p", "I">>} :
              LET res == find_by_host(_nodes, hint)
              IN  /\ (res = None) <=>
                        ~ \E i \in 1..Len(_nodes) : MatchesHint(hint, _nodes[i].info.host)
                  /\ res # None =>
                        \E k \in 1..Len(items) :
                           /\ items[k] = res[1]
                           /\ MatchesHint(hint, items[k].host)
                           /\ \A j \in 1..(k - 1) : ~MatchesHint(hint, items[j].host)
                           /\ \A i \in 1..Len(_nodes) :
                                 MatchesHint(hint, _nodes[i].info.host) =>
                                    _nodes[i].info.last_seen <= res[1].last_seen
        /\ CamAThenCamB =>
              /\ find_by_host(_nodes, <<"a">>) = Some(_nodes[2].info)
              /\ _nodes[2].info.host = HostCamB
              /\ find_by_host(_nodes, <<"-", "a">>) = Some(_nodes[1].info)
              /\ find_by_host(_nodes, <<"-", "A">>) = Some(_nodes[1].info)

\* cam-A, then cam-B later, and find_by_host("a") is the cam-B record
C4_Witness ==
    /\ CamAThenCamB
    /\ find_by_host(_nodes, <<"a">>) # None
    /\ find_by_host(_nodes, <<"a">>)[1].host = HostCamB

\* the listener has just taken a datagram that is undecodable, not a JSON
\* object, or of a type other than "raspi_cam"
HeardNoise ==
    /\ Len(heard') = Len(heard) + 1
    /\ LET p == heard'[Len(heard')].payload
       IN  p.json # "object" \/ p.type # "raspi_cam"

\* C5: a datagram that is undecodable, not a JSON object, or of another type
\* than "raspi_cam" leaves the table as it was; as long as only such datagrams
\* have arrived list_all() is empty; and the listener stops only on the stop
\* flag: after such a datagram it is back at its loop test.
C5_NoiseIgnored ==
    /\ [][HeardNoise => (_nodes' = _nodes /\ lpc' = "check")]_vars
    /\ []((\A k \in 1..Len(heard) : heard[k].payload \in NoisePayloads)
            => list_all(_nodes) = <<>>)
    /\ [](lpc = "stopped" => stop_evt)

\* two datagrams, one undecodable and one of type "unknown", and the table is empty
C5_Witness ==
    /\ Len(heard) = 2
    /\ heard[1].payload.json = "garbage"
    /\ heard[2].payload.type = "unknown"
    /\ list_all(_nodes) = <<>>
    /\ lpc = "check"

(***************************************************************************)
(* Properties of the capture worker                                        *)
(***************************************************************************)

\* between acquiring and releasing the camera lock
InCapture(r) == hpc[r] \in {"ensure", "capture", "send", "sleep", "exit"}

\* the uploads of a request, in the order they were made
SendsOf(r) == SelectSeq(events, LAMBDA e : e.call = r /\ e.kind = "send")

\* C1: at most one capture_and_send call is between acquiring and releasing
\* the camera lock, and it is the lock's holder; the device reads and uploads
\* of a call are contiguous in the order of all reads and uploads, so two
\* calls' capture spans never overlap and their uploads never interleave.
C1_CapturesSerialized ==
    /\ \A r, q \in Requests : InCapture(r) /\ InCapture(q) => r = q
    /\ \A r \in Requests : InCapture(r) <=> lock = r
    /\ \A i \in 1..Len(events), k \in 1..Len(events) :
          i + 1 < k /\ events[i].call = events[k].call
             => events[i + 1].call = events[i].call

\* a request is at the end of a call that uploaded two frames or more and
\* still holds the lock, while an earlier request waits for the lock
C1_Witness ==
    \E r, q \in Requests :
       /\ hpc[r] = "exit"
       /\ Len(SendsOf(r)) >= 2
       /\ lock = r
       /\ hpc[q] = "lock"
       /\ q < r

\* C8 as stated: a request for 3 frames at interval 0 that is answered 200 has
\* sent 3 frames in index order 0,1,2, the index embedded in the name sent,
\* all on one connection, with no sleep.
C8_Original ==
    \A r \in 1..Len(calls) :
       calls[r].status = 200 /\ calls[r].count = 3 /\ calls[r].interval = 0 =>
          LET sends == SendsOf(r)
          IN  /\ Len(sends) = 3
              /\ calls[r].sleeps = 0
              /\ \A k \in 1..Len(sends) :
                    /\ sends[k].index = Str(k - 1)
                    /\ sends[k].name = <<calls[r].name, Str(k - 1)>>
                    /\ sends[k].conn = sends[1].conn

\* C8 as amended: the uploads of a call carry the indices 0,1,2,... in that
\* order in the form field "index", next to the unchanged name, each upload on
\* a connection of its own; a call that ends normally for count n >= 1 has
\* made exactly n uploads; a call at interval 0 never sleeps, so name "t",
\* count 3, interval 0 yields the 3 uploads 0,1,2 with no delay between them.
C8_FramesInOrder ==
    \A r \in 1..Len(calls) :
       LET sends == SendsOf(r)
       IN  /\ \A k \in 1..Len(sends) :
                /\ sends[k].index = Str(k - 1)
                /\ sends[k].name = <<calls[r].name>>
                /\ \A j \in 1..Len(sends) : sends[j].conn = sends[k].conn => j = k
           /\ calls[r].status = 200 /\ calls[r].count >= 1
                 => Len(sends) = calls[r].count
           /\ calls[r].interval = 0 => calls[r].sleeps = 0
           /\ calls[r].status = 200 /\ calls[r].count = 3 /\ calls[r].interval = 0
                 => /\ [k \in 1..Len(sends) |-> sends[k].index] = <<"0", "1", "2">>
                    /\ calls[r].sleeps = 0

\* a request for name "t", count 3, interval 0 has been answered 200
C8_Witness ==
    \E r \in Requests :
       /\ reply[r].status = 200
       /\ hpc[r] = "done"
       /\ calls[r].name = "t"
       /\ calls[r].count = 3
       /\ calls[r].interval = 0
       /\ Len(SendsOf(r)) = 3

(***************************************************************************)
(* Properties of the session directories                                   *)
(***************************************************************************)

\* the uploads that resolved a directory without a session hint, for a key
Unpinned(key) ==
    {i \in 1..Len(resolved) :
        /\ resolved[i].file
        /\ resolved[i].hint = <<>>
        /\ SessionKey(resolved[i].name) = key}

ReuseTicks == SESSION_REUSE_SEC * TicksPerSec

Pinned == {i \in 1..Len(resolved) : resolved[i].file /\ resolved[i].hint # <<>>}

\* an upload with a session hint has just been served
PinnedUpload ==
    /\ Len(resolved') = Len(resolved) + 1
    /\ resolved'[Len(resolved')].file
    /\ resolved'[Len(resolved')].hint # <<>>

\* C7: with a non-empty session hint the directory is SAVE_ROOT/session_hint
\* whatever the name, the time and the cache hold, so two calls with the same
\* hint return the same directory; and the call leaves the cache as it was.
C7_HintPinned ==
    /\ [](\A i \in Pinned :
             /\ resolved[i].dir = Some([under |-> SAVE_ROOT, hint |-> resolved[i].hint,
                                        stamp |-> -1])
             /\ \A j \in Pinned :
                   resolved[j].hint = resolved[i].hint => resolved[j].dir = resolved[i].dir)
    /\ [][PinnedUpload => _sessions' = _sessions]_vars

\* "x" has a session in the cache, still within its window, and two later
\* uploads with the hint "s", under different names and at different times,
\* went to SAVE_ROOT/s
C7_Witness ==
    /\ Len(resolved) = 3
    /\ Unpinned(<<"x">>) = {1}
    /\ Pinned = {2, 3}
    /\ resolved[2].name = <<"x">> /\ resolved[3].name = <<>>
    /\ resolved[2].at - resolved[1].at <= ReuseTicks
    /\ resolved[3].at > resolved[2].at
    /\ resolved[2].dir = Some(HintDir(<<"s">>))
    /\ resolved[3].dir = resolved[2].dir
    /\ _sessions[<<"x">>] = Some([dir |-> resolved[1].dir[1], created_at |-> resolved[1].at])

(***************************************************************************)
(* Properties of the frame protocol                                        *)
(***************************************************************************)

\* well-formed UTF-8, over the bytes the model uses
RECURSIVE IsUtf8(_)
IsUtf8(bs) ==
    IF bs = <<>> THEN TRUE
    ELSE IF Head(bs) < 128 THEN IsUtf8(Tail(bs))
    ELSE IF IsLead2(Head(bs)) /\ Len(bs) >= 2 /\ IsCont(bs[2])
    THEN IsUtf8(SubSeq(bs, 3, Len(bs)))
    ELSE FALSE

\* a valid stream: whole frames, each with the magic and a UTF-8 name
ValidStream(s) ==
    /\ s.cut = 0
    /\ \A i \in 1..Len(s.frames) :
          s.frames[i].magic = MAGIC /\ IsUtf8(s.frames[i].name)

\* the decoded (name, image) pairs in the sender's layout
RECURSIVE Reencode(_)
Reencode(pairs) ==
    IF pairs = <<>> THEN <<>>
    ELSE EncodeFrame(MAGIC, Utf8Encode(pairs[1].name), pairs[1].img) \o Reencode(Tail(pairs))

HeaderLen == Len(MAGIC) + Len(Pack16(0)) + Len(Pack32(0))

\* the peer closed after some but not all bytes of the last frame's header
MidHeaderCut(s) == s.cut >= 1 /\ s.cut < HeaderLen

Ended == rpc \in {"closed", "error"}

\* C10 as stated: a close in the middle of a header ends handle_client
\* normally (when no acknowledgment of an earlier frame failed).
C10_Original ==
    (MidHeaderCut(stream) /\ Ended /\ rerr # "broken pipe") => (rpc = "closed" /\ rerr = "")

\* C10, amended: a connection closed in the middle of a header never ends
\* handle_client normally.  It ends with an exception that main reports:
\* "bad magic" when conn.recv(4) returned bytes that are not the whole magic,
\* "socket closed" when the close fell after the magic, in name_len or
\* img_len, with every frame before the cut stored and acknowledged (or
\* earlier, with the OSError of an acknowledgment that could not be written).
C10_MidHeaderCloseRaises ==
    MidHeaderCut(stream) =>
        /\ rpc # "closed"
        /\ rpc = "error" =>
              /\ rerr \in {"bad magic", "socket closed", "broken pipe"}
              /\ rerr = "bad magic" => (header # <<>> /\ header # MAGIC)
              /\ rerr = "socket closed" =>
                    /\ stream.cut >= Len(MAGIC)
                    /\ header = MAGIC
                    /\ wire = <<>>
                    /\ Len(buf) < stream.cut - Len(MAGIC) + 1
                    /\ Len(decoded) = Len(stream.frames) - 1
        /\ (stream.cut < Len(MAGIC) /\ rpc = "error"
               /\ Len(decoded) = Len(stream.frames) - 1 /\ wire = <<>>)
             => rerr = "bad magic"

\* one frame was stored and acknowledged, then the peer closed inside the
\* next header's length fields and recv_exact raised
C10_Witness ==
    /\ MidHeaderCut(stream)
    /\ rpc = "error"
    /\ rerr = "socket closed"
    /\ Len(decoded) = 1
    /\ acks >= 1
    /\ wire = <<>>

\* the place in the stream of the first frame whose magic is wrong, 0 if none
FirstBad(s) ==
    IF \E i \in 1..Len(s.frames) : s.frames[i].magic # MAGIC
    THEN CHOOSE i \in 1..Len(s.frames) :
            /\ s.frames[i].magic # MAGIC
            /\ \A j \in 1..(i - 1) : s.frames[j].magic = MAGIC
    ELSE 0

BadMagicRaised == rpc = "error" /\ rerr = "bad magic"

\* C11: bytes at a frame boundary that are not the magic end the connection
\* with "bad magic".  No frame at or after a wrong magic is stored or
\* acknowledged; the step that raises stores and acknowledges nothing and
\* leaves the files as they are; after it no byte of that connection is read,
\* the one step left being main's next accept, which is possible.
C11_BadMagicAborts ==
    /\ [](FirstBad(stream) # 0 => Len(decoded) < FirstBad(stream))
    /\ [](BadMagicRaised =>
             /\ header # <<>> /\ header # MAGIC
             /\ nconn < MaxConns => ENABLED Accept(NoStream))
    /\ [][(rpc = "magic" /\ rpc' = "error") =>
             /\ rerr' = "bad magic"
             /\ stored' = stored /\ acks' = acks /\ decoded' = decoded]_vars
    /\ [][BadMagicRaised =>
             /\ rpc' = "magic" /\ nconn' = nconn + 1
             /\ stored' = stored /\ acks' = acks]_vars

\* one frame was stored, then a frame with a wrong magic was met: the
\* connection has ended with "bad magic", bytes of it are left unread, the
\* file is still there, and main can accept again
C11_Witness ==
    /\ BadMagicRaised
    /\ FirstBad(stream) = 2
    /\ header = BadMagic
    /\ Len(decoded) = 1
    /\ wire # <<>>
    /\ stored # {}
    /\ nconn < MaxConns

(***************************************************************************)
(* Properties of main of discover_and_capture.py                           *)
(***************************************************************************)

MainEnded == mpc \in {"done", "raised", "exit_fail"}

\* C12: the discovery wait ends.  Main tries choose_target, sleeps and tries
\* again, and in the end it has either selected a peer or, the deadline
\* passed and no peer selected, set the stop flag and exited with the failure;
\* it posts a capture only with a selected peer.
C12_DiscoveryEnds ==
    /\ <>MainEnded
    /\ [](mpc = "exit_fail" => (stop_evt /\ target = None /\ clock >= deadline))
    /\ [](mpc \in {"selected", "done", "raised"} => target # None)
    /\ [][mpc = "sleep" => mpc' = "wait"]_mpc
    /\ [][mpc' = "sleep" => (mpc = "wait" /\ target' = None /\ clock < deadline)]_mpc
    /\ [][mpc' \in {"done", "raised"} => (mpc = "selected" /\ target # None)]_mpc

\* a peer was heard, but none whose host contains the hint: main slept
\* through the wait, then set the stop flag and exited with the failure
C12_Witness ==
    /\ mpc = "exit_fail"
    /\ stop_evt
    /\ host_hint # <<>>
    /\ _nodes # <<>>
    /\ target = None
    /\ clock >= deadline

\* C13 as stated: the timeout of every POST trigger_capture sends exceeds
\* count x interval of the request.
C13_Original ==
    \A k \in 1..Len(posts) :
       posts[k].request.timeout > posts[k].request.count * posts[k].request.interval

Attempted == mpc \in {"done", "raised"}

\* C14 as stated: one POST per call of trigger_capture, which returns
\* normally on a 2xx answer and raises on any other answer and on a transport
\* failure; the stop flag is set either way.
C14_Original ==
    Attempted =>
       /\ Len(posts) = 1
       /\ stop_evt
       /\ (mpc = "done") <=> (posts[1].outcome = "2xx")

\* what holds of trigger_capture: before it returns or raises main has posted
\* nothing; after, exactly one request, never a second; it raises on a 4xx or
\* 5xx answer and on a transport failure, and returns normally on any other
\* answer; and either way the stop flag is set.
C14_OneAttempt ==
    /\ [](Len(posts) <= 1)
    /\ [](Attempted <=> Len(posts) = 1)
    /\ [](Attempted => /\ stop_evt
                       /\ (mpc = "raised") <=> (posts[1].outcome \in {"4xx", "5xx", "neterr"})
                       /\ posts[1].request.ip = target[1].ip
                       /\ posts[1].request.count = args.count)
    /\ [][Attempted => (mpc' = mpc /\ posts' = posts /\ stop_evt')]_vars

\* the capture service answered with a 5xx status: trigger_capture raised
\* after its one POST, and the stop flag is set
C14_Witness ==
    /\ mpc = "raised"
    /\ Len(posts) = 1
    /\ posts[1].outcome = "5xx"
    /\ stop_evt
    /\ lpc = "stopped"

(***************************************************************************)
(* Further properties of the capture worker                                *)
(***************************************************************************)

\* the errors of encoding and of transmitting a frame
SendErrors == {"cv2.imencode failed", "upload"}

\* the device reads and uploads of a call, in order
EventsOf(r) == SelectSeq(events, LAMBDA e : e.call = r)

\* C15: when the encoding or the upload of frame i fails, the call is over:
\* its last device read or upload is that of frame i, the frames before i were
\* uploaded and none after; the request is answered 500 with the error; the
\* lock is free once the call has ended; and the device handle stays as it
\* was, initialised once, for the requests that follow, which take the lock
\* as soon as it is free.
C15_FailureIsolated ==
    /\ [](\A r \in 1..Len(calls) :
             calls[r].error \in SendErrors =>
                LET mine == EventsOf(r)
                    i    == idx[r]
                    up   == calls[r].error = "upload"
                IN  /\ hpc[r] \in {"exit", "done"}
                    /\ calls[r].status = 500
                    /\ mine # <<>>
                    /\ mine[Len(mine)].index = Str(i)
                    /\ mine[Len(mine)].kind = (IF up THEN "send" ELSE "read")
                    /\ up => ~mine[Len(mine)].ok
                    /\ \A k \in 1..Len(mine) : mine[k].index \in {Str(j) : j \in 0..i}
                    /\ Len(SendsOf(r)) = i + (IF up THEN 1 ELSE 0)
                    /\ \A k \in 1..i : SendsOf(r)[k].ok
                    /\ hpc[r] = "done" =>
                          /\ reply[r] = [status |-> 500, sent |-> 0, error |-> calls[r].error]
                          /\ lock # r
                    /\ cam # "none"
                    /\ ninit = 1)
    /\ [][cam # "none" => (cam' = cam /\ ninit' = ninit)]_vars
    /\ [](\A q \in Requests : (hpc[q] = "lock" /\ lock = 0) => ENABLED Acquire(q))

\* the upload of frame 1 of the first request failed and the request was
\* answered 500; the second request then took the lock and was answered 200
\* for its frames, read from the device started for the first
C15_Witness ==
    /\ Len(calls) = 2
    /\ calls[1].error = "upload"
    /\ idx[1] = 1
    /\ calls[1].count = 3
    /\ reply[1].status = 500
    /\ reply[2].status = 200
    /\ Len(SendsOf(2)) = 3
    /\ \A k \in 1..Len(events) : events[k].cam = "started"
    /\ events[Len(events)].call = 2
    /\ events[1].call = 1
    /\ ninit = 1
    /\ lock = 0

\* the calls that created the device: Picamera2() returned
Creators == {r \in 1..Len(calls) : calls[r].init \in {"ok", "start_fail"}}

\* the calls that have gone through _ensure_cam
Ensured == {r \in 1..Len(calls) : calls[r].init # ""}

\* C16 as stated: the device is created at most once, by the first call of
\* capture_and_send, never before; later calls reuse the handle.
C16_Original ==
    /\ ninit <= 1
    /\ Ensured = {} => (cam = "none" /\ ninit = 0)
    /\ \A r \in Creators : \A q \in Ensured : q # r => calls[q].init = "reused"

\* C16 as amended: the device is created at most once, never before a call
\* reaches _ensure_cam, by the first call in which Picamera2() does not raise:
\* the calls through _ensure_cam before it all failed in the constructor and
\* left no handle, the calls after it all reuse the handle, started or not,
\* and nothing creates, configures or starts a device again.
C16_CreatedOnce ==
    /\ [](ninit <= 1 /\ Cardinality(Creators) = ninit)
    /\ [](Ensured = {} => (cam = "none" /\ ninit = 0))
    /\ []((cam = "none") <=> (Creators = {}))
    /\ [](\A r \in Creators :
             /\ cam = (IF calls[r].init = "ok" THEN "started" ELSE "created")
             /\ \A q \in Ensured : q # r => calls[q].init \in {"ctor_fail", "reused"})
    /\ [][cam # "none" => (cam' = cam /\ ninit' = ninit)]_<<cam, ninit>>
    /\ [][\A r \in Requests :
             (r <= Len(calls) /\ r <= Len(calls') /\ calls'[r].init = "reused"
                 /\ calls[r].init = "") => (cam # "none" /\ cam' = cam)]_vars

\* Picamera2() raised in the first call; the second call created and started
\* the device and was answered 200
C16_Witness ==
    /\ Len(calls) = 2
    /\ calls[1].init = "ctor_fail"
    /\ calls[2].init = "ok"
    /\ reply[1].status = 500
    /\ reply[2].status = 200
    /\ ninit = 1
    /\ cam = "started"

(***************************************************************************)
(* Properties of concurrent updates                                        *)
(***************************************************************************)

\* C17 as stated: the last_seen stored under a key never decreases, whatever
\* the threads that call update and however they interleave.
C17_Original ==
    [][\A k \in 1..Len(_nodes) : \A j \in 1..Len(_nodes') :
          _nodes'[j].key = _nodes[k].key
             => _nodes'[j].info.last_seen >= _nodes[k].info.last_seen]_vars

\* max(1, c)
AtLeastOne(c) == IF c >= 1 THEN c ELSE 1

OkSendsOf(r) == SelectSeq(events, LAMBDA e : e.call = r /\ e.kind = "send" /\ e.ok)

\* C18: a call with count c and interval I that ends normally has made
\* max(1,c) iterations, each a device read followed by the upload of the
\* frame, with the indices 0..max(1,c)-1 in order; it has slept max(1,c)-1
\* times when I > 0 and never when I = 0; at any moment the sleeps of a call
\* follow uploaded frames other than the last, one each.
C18_LoopAndSleeps ==
    \A r \in 1..Len(calls) :
       LET n    == AtLeastOne(calls[r].count)
           mine == EventsOf(r)
       IN  /\ calls[r].status = 200 =>
                /\ Len(mine) = 2 * n
                /\ \A k \in 1..n :
                      /\ mine[2 * k - 1].kind = "read" /\ mine[2 * k - 1].index = Str(k - 1)
                      /\ mine[2 * k].kind = "send" /\ mine[2 * k].index = Str(k - 1)
                      /\ mine[2 * k].ok
                /\ calls[r].sleeps = (IF calls[r].interval > 0 THEN n - 1 ELSE 0)
           /\ calls[r].sleeps =
                 (IF calls[r].interval > 0
                  THEN (IF Len(OkSendsOf(r)) < n THEN Len(OkSendsOf(r)) ELSE n - 1)
                  ELSE 0)
           /\ hpc[r] = "sleep" => (idx[r] < n - 1 /\ calls[r].interval > 0)

\* a request for 3 frames at interval 1 has ended normally after 2 sleeps,
\* and a request for count 0 (or less) after one frame and no sleep
C18_Witness ==
    \E r, q \in Requests :
       /\ hpc[r] = "done" /\ hpc[q] = "done"
       /\ calls[r].count = 3 /\ calls[r].interval = 1
       /\ calls[r].status = 200 /\ calls[r].sleeps = 2
       /\ Len(SendsOf(r)) = 3
       /\ calls[q].count <= 0 /\ calls[q].interval = 1
       /\ calls[q].status = 200 /\ calls[q].sleeps = 0
       /\ Len(SendsOf(q)) = 1

\* C19 as stated: the "sent" of a 200 response is the number of frames the
\* request captured and uploaded.
C19_Original ==
    \A r \in Requests :
       reply[r].status = 200 => reply[r].sent = Len(OkSendsOf(r))

(***************************************************************************)
(* Properties of choose_target                                             *)
(***************************************************************************)

\* main has just called choose_target
Chose == mpc = "wait" /\ mpc' \in {"sleep", "selected"}

\* C20: a call of choose_target leaves the registry as it is.  With a hint it
\* returns what find_by_host returns, a record whose host contains the hint,
\* and raises exactly when no registered host contains it, other peers or
\* not; without a hint it returns latest(), a record of the table with the
\* greatest last_seen, and raises exactly when the table is empty.
C20_ChooseTarget ==
    [][Chose =>
          /\ _nodes' = _nodes
          /\ (mpc' = "sleep") <=> (target' = None)
          /\ IF host_hint # <<>>
             THEN /\ target' = find_by_host(_nodes, host_hint)
                  /\ (target' = None) <=>
                        ~\E k \in 1..Len(_nodes) : MatchesHint(host_hint, _nodes[k].info.host)
                  /\ target' # None => MatchesHint(host_hint, target'[1].host)
             ELSE /\ target' = latest(_nodes)
                  /\ (target' = None) <=> (_nodes = <<>>)
                  /\ target' # None =>
                        /\ \E k \in 1..Len(_nodes) : _nodes[k].info = target'[1]
                        /\ \A k \in 1..Len(_nodes) :
                              _nodes[k].info.last_seen <= target'[1].last_seen]_vars

\* a camera is registered, but not one whose host contains the hint:
\* choose_target raised and main sleeps
C20_Witness ==
    /\ mpc = "sleep"
    /\ host_hint = <<"B">>
    /\ _nodes # <<>>
    /\ \A k \in 1..Len(_nodes) : ~MatchesHint(host_hint, _nodes[k].info.host)
    /\ latest(_nodes) # None
    /\ target = None

(***************************************************************************)
(* Properties of the listener thread                                       *)
(***************************************************************************)

ListenerStopped == lpc = "stopped"

Reads == {k \in 1..Len(events) : events[k].kind = "read"}

\* C27 as stated: every capture_array is called on a device that was
\* configured and started, and a call that finds a handle left by a failed
\* initialisation does not take it for an initialised device.
C27_Original ==
    /\ \A k \in Reads : events[k].cam = "started"
    /\ \A r \in Ensured : calls[r].init = "reused" => cam = "started"

(***************************************************************************)
(* Properties of the answers of POST /capture                              *)
(***************************************************************************)

\* do_POST has ended for the request, by a return or by an exception
Finished(r) == r <= Len(calls) /\ hpc[r] \in {"done", "crashed"}

\* C29 as stated: every POST /capture whose handler has ended was answered
\* with 200, 400 or 500, whatever its body, and does not hold the lock.
C29_Original ==
    \A r \in Requests :
        (Finished(r) /\ calls[r].path = "/capture") =>
            /\ reply[r].status \in {200, 400, 500}
            /\ lock # r

(***************************************************************************)
(* Properties of POST /upload                                              *)
(***************************************************************************)

\* the request the last upload() call served
LastUpload == resolved[Len(resolved)]

\* C26: an upload without an image file is answered 400 and leaves the
\* session cache, the directories, the saved files and the annotation tasks
\* as they were, and resolves no session directory, whether or not it
\* carries a session field; 400 is the answer to such requests only.
C26_NoFileNoChange ==
    /\ [][(resolved' # resolved /\ ~LastUpload'.file) =>
             /\ ureply' = 400
             /\ LastUpload'.dir = None
             /\ _sessions' = _sessions
             /\ dirs' = dirs
             /\ saved' = saved
             /\ tasks' = tasks]_vars
    /\ [][(resolved' # resolved /\ LastUpload'.file) =>
             /\ ureply' = 200
             /\ LastUpload'.dir # None
             /\ tasks' = tasks + 1]_vars

\* after one upload with a file, a second one without a file but with a
\* session field was answered 400: still one file, one task, and no
\* directory of that session
C26_Witness ==
    /\ Len(resolved) = 2
    /\ resolved[1].file
    /\ ~resolved[2].file
    /\ resolved[2].hint = <<"s">>
    /\ ureply = 400
    /\ Cardinality(saved) = 1
    /\ tasks = 1
    /\ HintDir(<<"s">>) \notin dirs

(***************************************************************************)
(* Properties of the subnet scan                                           *)
(***************************************************************************)

\* an answer of /health that makes a host the receiver: 200 and a JSON
\* object with ok true or status "ok"
Healthy(r) ==
    /\ ~r.exc
    /\ r.status_code = 200
    /\ r.json = "object"
    /\ (r.ok = "true" \/ r.status = "ok")

\* the address is a host of the subnet of the interface's own address
InOwnSubnet(a) ==
    /\ ifout.kind = "inet"
    /\ ifout.prefix > 0
    /\ LET size == Pow2(AddrBits - ifout.prefix)
       IN  /\ a \div size = ifout.ip \div size
           /\ size > 2 => (a % size # 0 /\ a % size # size - 1)

\* the hosts of the subnet of the interface's own address
SubnetHosts == {a \in 0..(Pow2(AddrBits) - 1) : InOwnSubnet(a)}

FramingError == rpc = "error" /\ rerr \in {"bad magic", "socket closed"}

\* C22 as stated: on a valid stream, however recv splits it, the receiver
\* raises no framing error, and when handle_client has returned every frame
\* of the stream has been decoded and stored.
C22_Original ==
    (rpc # "listening" /\ ValidStream(stream)) =>
        /\ ~FramingError
        /\ rpc = "closed" => Len(decoded) = Len(stream.frames)

\* the peer has closed and the receiver stands at a frame boundary with
\* every byte sent read: k whole frames, no byte of a next magic
AtBoundaryClose == rpc = "magic" /\ wire = <<>> /\ PeerClosed

\* the file written for a decoded frame exists
HasFile(d) ==
    \E f \in stored : f.fname.prefix = (IF d.name # <<>> THEN d.name ELSE FramePrefix)

SendStates == {"magic", "name_len", "img_len", "name", "img"}

\* an earlier sock.recv(2) of the sender ended in socket.timeout
AckMissed == \E j \in 1..Len(sacked) : sacked[j].res = "timeout"

\* C21 as stated, the sender's half: a sender that got no acknowledgment
\* within its timeout does not fail; while the receiver holds the connection
\* no sendall of a later frame raises.
C21_Original ==
    [][(AckMissed /\ spc \in SendStates /\ ~ReceiverClosed) => spc' # "failed"]_vars

\* C21, the part that holds: an acknowledgment is written only by the step
\* that has the whole image and has written its file, one at a time; every
\* stored frame has its acknowledgment but one whose sendall raised, which
\* ends the connection; and the sender's read of the acknowledgment never
\* fails it, whatever the read returns or raises: it goes on to the sleep or
\* to the next iteration.
C21_AckAfterStore ==
    /\ [][acks' # acks =>
             /\ acks' = acks + 1
             /\ rpc = "img" /\ Len(buf) = img_len
             /\ [fname |-> FileName(rname, fclock'), img |-> buf] \in stored'
             /\ Len(decoded') = Len(decoded) + 1]_vars
    /\ [](spc # "start" =>
             /\ acks <= Len(decoded)
             /\ acks < Len(decoded) =>
                   (acks = Len(decoded) - 1 /\ rpc = "error" /\ rerr = "broken pipe"))
    /\ [][spc = "ack" =>
             /\ spc' \in {"ack", "loop", "sleep"}
             /\ sfail' = ""
             /\ spc' # "ack" => Len(sacked') = Len(sacked) + 1]_vars

\* the read of the first frame's acknowledgment timed out, the sender went on
\* and sent the second frame, and the receiver stored and acknowledged both
C21_Witness ==
    /\ Len(sacked) >= 1
    /\ sacked[1].res = "timeout"
    /\ nsent = 2
    /\ acks = 2
    /\ Len(decoded) = 2
    /\ spc = "done"

\* C28 as stated (a frame whose acknowledgment could not be written is
\* stored unacknowledged, so files may outnumber acknowledgments): there are
\* as many files as acknowledgments or more, and the image of every
\* acknowledged frame is still in a file.
C28_Original ==
    /\ acks <= Cardinality(stored)
    /\ \A i \in 1..Len(decoded) :
          i <= acks => \E f \in stored : f.img = decoded[i].img

====
